---- MODULE Spec2Model ----
(***************************************************************************)
(* Model of the flow orchestration of angular-auth-oidc-client:            *)
(*   - RefreshSessionService (forceRefreshSession, startRefreshSession,    *)
(*     timeoutRetryStrategy), specification Spec;                          *)
(*   - CodeFlowCallbackHandlerService.codeFlowCodeRequest and              *)
(*     handleRefreshRetry, specification SpecCode.                         *)
(* Observables are cold: calling a method builds the pipeline, Subscribe   *)
(* starts it, and retryWhen re-subscribes the same pipeline.               *)
(***************************************************************************)
EXTENDS Integers, Sequences, FiniteSets, TLC

\* ------------------------------------------------------------------ bounds
MaxCalls == 2
MaxPosts == 3

\* ------------------------------------------------------- program constants
MAX_RETRY_ATTEMPTS == 3
scalingDuration == 1000

Undefined == "undefined"
Configs == {"a", "b"}
Calls == 1..MaxCalls
FlowKinds == {"iframe", "refresh"}
TimeoutError == "TimeoutError"
OtherError == "Error"

VARIABLES
    config,         \* configId -> [flow, authWellknownEndpointUrl]
    running,        \* configId -> silent-renewal-in-progress flag
    iframePending,  \* configId -> iframe renewals dispatched and not yet answered
    calls,          \* call slot -> state of one forceRefreshSession call
    authStorage,    \* configId -> the stored tokens and whether they are valid
    codeConfig,     \* the configuration codeFlowCodeRequest is called with
    authStateControl,       \* configId -> stored anti-forgery value
    authWellKnownEndPoints, \* configId -> cached well-known metadata
    callbackContext,        \* the context codeFlowCodeRequest is called with
    exchange,       \* progress of that codeFlowCodeRequest call
    returnUrl,      \* the URL codeFlowCallback is called with (its parameters)
    callbackResult, \* what codeFlowCallback returned
    implicitConfig, \* the configuration of the implicit-flow callback
    implicit,       \* progress of authenticatedImplicitFlowCallback
    periodicTokenCheck, \* the periodic token-expiry check is running
    navigations     \* the routes router.navigateByUrl was called with

refreshVars == <<config, running, iframePending, calls, authStorage>>
codeVars == <<codeConfig, authStateControl, authWellKnownEndPoints,
              callbackContext, exchange>>
callbackVars == <<returnUrl, callbackResult>>
implicitVars == <<implicitConfig, implicit, periodicTokenCheck, navigations>>

\* The tokens and user data of configuration c in their g-th version.
TokensOf(c, g) ==
    [id_token |-> "id_" \o c \o ToString(g),
     access_token |-> "at_" \o c \o ToString(g),
     userData |-> "user_" \o c \o ToString(g)]

NoTokens == [id_token |-> "null", access_token |-> "null", userData |-> "null"]

\* The null forceRefreshSession emits when the stored tokens are not valid.
NullResponse ==
    [idToken |-> "null", accessToken |-> "null", userData |-> "null",
     isAuthenticated |-> FALSE, configId |-> "null"]

\* One forceRefreshSession call that has not been made yet.
IdleCall ==
    [st |-> "idle", cfg |-> "a", srs |-> "none", start |-> "off", sig |-> "off",
     errs |-> <<>>, result |-> "none", thrown |-> "none", fetches |-> 0,
     dispatched |-> 0, delay |-> 0, overlapped |-> FALSE, everSet |-> FALSE,
     context |-> NoTokens, response |-> NullResponse]

\* authStateService.areAuthStorageTokensValid(config) on the storage st
areAuthStorageTokensValid(st, c) == st[c].valid

\* authStateService.getIdToken(configId), getAccessToken(configId) and
\* userService.getUserDataFromStore(config) on the storage st
getIdToken(st, c) == TokensOf(c, st[c].version).id_token

getAccessToken(st, c) == TokensOf(c, st[c].version).access_token

getUserDataFromStore(st, c) == TokensOf(c, st[c].version).userData

\* flowHelper.isCurrentFlowCodeFlowWithRefreshTokens(config)
isCurrentFlowCodeFlowWithRefreshTokens(c) == config[c].flow = "refresh"

\* flowsDataService.isSilentRenewRunning(config)
isSilentRenewRunning(c) == running[c]

\* startRefreshSession, the part that runs when it is called: the observable
\* it returns is of(null) ("null") or the metadata pipeline ("pipe").
startRefreshSession(c) ==
    LET shouldBeExecuted == ~isSilentRenewRunning(c) IN
    IF ~shouldBeExecuted THEN "null"
    ELSE IF config[c].authWellknownEndpointUrl = Undefined THEN "null"
    ELSE "pipe"

\* The second argument timeoutRetryStrategy receives from retryWhen:
\* this.timeoutRetryStrategy.bind(this) binds `this` only and retryWhen calls
\* its notifier with the error stream alone, so `config` is undefined.
retryWhenConfigArgument(c) == Undefined

\* timeoutRetryStrategy without its TimeoutError test and tolerating a missing
\* config: every error is retried while attempts remain.
timeoutRetryStrategyAnyError(error, index, cfgArg) ==
    LET currentAttempt == index + 1 IN
    IF currentAttempt > MAX_RETRY_ATTEMPTS
    THEN [throw |-> "Error", reset |-> Undefined, delay |-> 0]
    ELSE [throw |-> "none", reset |-> cfgArg,
          delay |-> currentAttempt * scalingDuration]

\* timeoutRetryStrategy for the error with the given mergeMap index.
\* Destructuring an undefined config throws a TypeError out of the notifier.
timeoutRetryStrategy(error, index, cfgArg) ==
    IF cfgArg = Undefined
    THEN [throw |-> "TypeError", reset |-> Undefined, delay |-> 0]
    ELSE LET currentAttempt == index + 1 IN
         IF error # TimeoutError \/ currentAttempt > MAX_RETRY_ATTEMPTS
         THEN [throw |-> "Error", reset |-> Undefined, delay |-> 0]
         ELSE [throw |-> "none", reset |-> cfgArg,
               delay |-> currentAttempt * scalingDuration]

\* flowsDataService.resetSilentRenewRunning(configId) on the flag map r
resetSilentRenewRunning(r, c) ==
    IF c \in Configs THEN [r EXCEPT ![c] = FALSE] ELSE r

\* An error that leaves the subscriptions of the attempt in place.
unsubscribeSourceSkipped(call) == call

\* The error ends the attempt: timeout() unsubscribes forkJoin, and with it
\* the startRefreshSession pipeline (metadata fetch, switchMap, renewal) and
\* the take(1) subscription to the completion signal.
unsubscribeSource(call) == [call EXCEPT !.start = "off", !.sig = "off"]

\* The call record after an error reached the end of the forceRefreshSession
\* pipeline: the refresh-token path has no retryWhen, the iframe path hands the
\* error to retryWhen(timeoutRetryStrategy).
AfterError(k, error) ==
    LET call == calls[k]
        cut == [unsubscribeSource(call) EXCEPT !.errs = Append(call.errs, error)]
    IN  IF isCurrentFlowCodeFlowWithRefreshTokens(call.cfg)
        THEN [cut EXCEPT !.st = "settled", !.result = "error", !.thrown = "Error"]
        ELSE LET out == timeoutRetryStrategy(error, Len(call.errs),
                                             retryWhenConfigArgument(call.cfg))
             IN  IF out.throw # "none"
                 THEN [cut EXCEPT !.st = "settled", !.result = "error",
                                  !.thrown = out.throw]
                 ELSE [cut EXCEPT !.st = "backoff", !.delay = out.delay]

\* The flag map after that error.
RunningAfterError(k, error) ==
    LET call == calls[k] IN
    IF isCurrentFlowCodeFlowWithRefreshTokens(call.cfg) THEN running
    ELSE resetSilentRenewRunning(running,
            timeoutRetryStrategy(error, Len(call.errs),
                                 retryWhenConfigArgument(call.cfg)).reset)

\* The map() answering on every path with the tokens of the completion
\* signal's context.
LoginResponseFromSignal(call, st) ==
    LET c == call.cfg IN
    IF areAuthStorageTokensValid(st, c)
    THEN [idToken |-> call.context.id_token,
          accessToken |-> call.context.access_token,
          userData |-> getUserDataFromStore(st, c),
          isAuthenticated |-> TRUE, configId |-> c]
    ELSE NullResponse

\* The map() that builds the LoginResponse once the pipeline has its value,
\* with the storage st as it is then: from the stored tokens on the
\* refresh-token path, from the completion signal's context on the iframe path.
LoginResponse(call, st) ==
    LET c == call.cfg IN
    IF ~areAuthStorageTokensValid(st, c) THEN NullResponse
    ELSE IF isCurrentFlowCodeFlowWithRefreshTokens(c)
    THEN [idToken |-> getIdToken(st, c),
          accessToken |-> getAccessToken(st, c),
          userData |-> getUserDataFromStore(st, c),
          isAuthenticated |-> TRUE, configId |-> c]
    ELSE [idToken |-> call.context.id_token,
          accessToken |-> call.context.access_token,
          userData |-> getUserDataFromStore(st, c),
          isAuthenticated |-> TRUE, configId |-> c]

\* The call once map() has run.
Settled(call, st) ==
    [call EXCEPT !.st = "settled", !.start = "off", !.sig = "off",
                 !.result = IF areAuthStorageTokensValid(st, call.cfg)
                            THEN "response" ELSE "null",
                 !.response = LoginResponse(call, st)]

\* Another call for configuration c has subscribed its metadata pipeline and
\* its renewal has not ended.
RenewalUnderWay(c) ==
    \E j \in Calls : /\ calls[j].st = "active" /\ calls[j].cfg = c
                     /\ calls[j].srs = "pipe"
                     /\ calls[j].start \in {"fetching", "renewing"}

TypeOK ==
    /\ config \in [Configs -> [flow : FlowKinds,
                               authWellknownEndpointUrl : {Undefined, "url"}]]
    /\ running \in [Configs -> BOOLEAN]
    /\ iframePending \in [Configs -> Nat]
    /\ authStorage \in [Configs -> [valid : BOOLEAN, version : Nat]]
    /\ \A k \in Calls :
          /\ calls[k].st \in {"idle", "created", "active", "backoff", "settled"}
          /\ calls[k].cfg \in Configs
          /\ calls[k].srs \in {"none", "null", "pipe"}
          /\ calls[k].start \in {"off", "fetching", "renewing", "done"}
          /\ calls[k].sig \in {"off", "waiting", "got"}
          /\ calls[k].result \in {"none", "response", "null", "error"}

InitRefresh ==
    /\ config \in [Configs -> [flow : FlowKinds,
                               authWellknownEndpointUrl : {Undefined, "url"}]]
    /\ running = [c \in Configs |-> FALSE]
    /\ iframePending = [c \in Configs |-> 0]
    /\ calls = [k \in Calls |-> IdleCall]
    /\ authStorage \in [Configs -> [valid : BOOLEAN, version : {0}]]

\* forceRefreshSession(config) is called: startRefreshSession runs its checks
\* now and the pipeline is built; nothing is subscribed yet.
ForceRefreshSession(k, c) ==
    /\ calls[k].st = "idle"
    /\ \A j \in Calls : j < k => calls[j].st # "idle"
    /\ calls' = [calls EXCEPT ![k] =
                    [IdleCall EXCEPT !.st = "created", !.cfg = c,
                                     !.srs = startRefreshSession(c),
                                     !.overlapped = RenewalUnderWay(c)]]
    /\ UNCHANGED <<config, running, iframePending, authStorage, codeVars,
                   callbackVars, implicitVars>>

\* The pipeline is subscribed: by the caller, or by retryWhen once the backoff
\* timer has fired. of(null) emits at once; the metadata pipeline starts its
\* fetch. On the iframe path the one-shot subscription to
\* refreshSessionWithIFrameCompleted$ starts too; on the refresh-token path a
\* null from startRefreshSession goes through map() at once.
Subscribe(k) ==
    LET call == calls[k]
        c == call.cfg
        begun == IF call.srs = "null"
                 THEN [call EXCEPT !.st = "active", !.start = "done"]
                 ELSE [call EXCEPT !.st = "active", !.start = "fetching",
                                   !.fetches = @ + 1]
    IN  /\ call.st \in {"created", "backoff"}
        /\ IF ~isCurrentFlowCodeFlowWithRefreshTokens(c)
           THEN calls' = [calls EXCEPT ![k] = [begun EXCEPT !.sig = "waiting"]]
           ELSE IF call.srs = "pipe"
           THEN calls' = [calls EXCEPT ![k] = begun]
           ELSE calls' = [calls EXCEPT ![k] = Settled(begun, authStorage)]
        /\ UNCHANGED <<config, running, iframePending, authStorage, codeVars,
                       callbackVars, implicitVars>>

\* A switchMap that dispatches the renewal without setting the flag.
setSilentRenewRunningSkipped(r, c) == r

\* flowsDataService.setSilentRenewRunning(configId) on the flag map r
setSilentRenewRunning(r, c) == [r EXCEPT ![c] = TRUE]

\* getAuthWellKnownEndPoints resolves: the switchMap sets the flag and
\* dispatches the renewal (refresh-token exchange or iframe renewal).
MetadataResolved(k) ==
    LET call == calls[k]
        c == call.cfg
    IN  /\ call.start = "fetching"
        /\ running' = setSilentRenewRunning(running, c)
        /\ calls' = [calls EXCEPT ![k] =
                        [call EXCEPT !.start = "renewing", !.everSet = TRUE,
                                     !.dispatched = @ + 1]]
        /\ iframePending' =
              IF isCurrentFlowCodeFlowWithRefreshTokens(c) THEN iframePending
              ELSE [iframePending EXCEPT ![c] = @ + 1]
        /\ UNCHANGED <<config, authStorage, codeVars, callbackVars, implicitVars>>

\* getAuthWellKnownEndPoints fails (a non-timeout error).
MetadataFailed(k) ==
    /\ calls[k].st = "active" /\ calls[k].start = "fetching"
    /\ calls' = [calls EXCEPT ![k] = AfterError(k, OtherError)]
    /\ running' = RunningAfterError(k, OtherError)
    /\ UNCHANGED <<config, iframePending, authStorage, codeVars, callbackVars,
                   implicitVars>>

\* The collaborators' side of the flag: a renewal that completes (the
\* refresh-token exchange, or the iframe's answer) clears the flag of its
\* configuration.
flagAfterRenewalCompleted(r, c) == [r EXCEPT ![c] = FALSE]

\* The collaborators' side of the storage: a renewal that completes has
\* stored the tokens it obtained (version 1), valid or not.
storageAfterRenewalCompleted(st, c, valid) ==
    [st EXCEPT ![c] = [valid |-> valid, version |-> 1]]

\* The dispatched renewal's observable emits and completes. On the
\* refresh-token path that is the end of the exchange and map() settles the
\* call; on the iframe path forkJoin still needs the completion signal.
RenewalCompleted(k) ==
    LET call == calls[k]
        c == call.cfg
        done == [call EXCEPT !.start = "done"]
    IN  /\ call.start = "renewing"
        /\ IF isCurrentFlowCodeFlowWithRefreshTokens(c)
           THEN /\ running' = flagAfterRenewalCompleted(running, c)
                /\ \E valid \in BOOLEAN :
                      authStorage' = storageAfterRenewalCompleted(authStorage, c, valid)
                /\ calls' = [calls EXCEPT ![k] = Settled(done, authStorage')]
           ELSE /\ running' = running
                /\ authStorage' = authStorage
                /\ calls' = [calls EXCEPT ![k] =
                                IF call.sig = "got" THEN Settled(done, authStorage)
                                ELSE done]
        /\ UNCHANGED <<config, iframePending, codeVars, callbackVars, implicitVars>>

\* The dispatched renewal fails (a non-timeout error).
RenewalFailed(k) ==
    /\ calls[k].st = "active" /\ calls[k].start = "renewing"
    /\ calls' = [calls EXCEPT ![k] = AfterError(k, OtherError)]
    /\ running' = RunningAfterError(k, OtherError)
    /\ UNCHANGED <<config, iframePending, authStorage, codeVars, callbackVars,
                   implicitVars>>

\* timeout(timeOutTime) fires before forkJoin has completed: both branches are
\* unsubscribed and a TimeoutError goes to retryWhen.
Timeout(k) ==
    /\ calls[k].st = "active"
    /\ ~isCurrentFlowCodeFlowWithRefreshTokens(calls[k].cfg)
    /\ calls' = [calls EXCEPT ![k] = AfterError(k, TimeoutError)]
    /\ running' = RunningAfterError(k, TimeoutError)
    /\ UNCHANGED <<config, iframePending, authStorage, codeVars, callbackVars,
                   implicitVars>>

\* The iframe of configuration c answers: the collaborator ends that renewal
\* and refreshSessionWithIFrameCompleted$ (one subject for all configurations)
\* emits. Every take(1) subscription receives it; a call whose
\* startRefreshSession branch has completed settles through map().
IframeCompleted(c) ==
    /\ iframePending[c] > 0
    /\ iframePending' = [iframePending EXCEPT ![c] = @ - 1]
    /\ running' = flagAfterRenewalCompleted(running, c)
    /\ \E valid \in BOOLEAN :
          authStorage' = storageAfterRenewalCompleted(authStorage, c, valid)
    /\ calls' = [k \in Calls |->
                    IF calls[k].sig = "waiting"
                    THEN LET got == [calls[k] EXCEPT !.sig = "got",
                                                     !.context = TokensOf(c, 1)]
                         IN  IF calls[k].start = "done"
                             THEN Settled(got, authStorage')
                             ELSE got
                    ELSE calls[k]]
    /\ UNCHANGED <<config, codeVars, callbackVars, implicitVars>>

NextRefresh ==
    \/ \E k \in Calls, c \in Configs : ForceRefreshSession(k, c)
    \/ \E k \in Calls : Subscribe(k)
    \/ \E k \in Calls : MetadataResolved(k)
    \/ \E k \in Calls : Timeout(k)
    \/ \E k \in Calls : MetadataFailed(k)
    \/ \E k \in Calls : RenewalCompleted(k)
    \/ \E k \in Calls : RenewalFailed(k)
    \/ \E c \in Configs : IframeCompleted(c)

\* ------------------------------------------------- codeFlowCodeRequest

StateValues == {"s1", "s2"}
TokenEndpointUrl == "https://idp/token"

\* The parsed bodies the token endpoint may answer with; a body may carry its
\* own state and session_state members.
Responses ==
    {[access_token |-> "at1", state |-> Undefined, session_state |-> Undefined],
     [access_token |-> "at2", state |-> "s-idp", session_state |-> "ss-idp"]}

\* What dataService.post may fail with: an HttpErrorResponse or not, whose
\* .error is a ProgressEvent or not, of the given type.
PostErrors ==
    {[http |-> TRUE, progressEvent |-> TRUE, type |-> "error"],
     [http |-> TRUE, progressEvent |-> TRUE, type |-> "timeout"],
     [http |-> TRUE, progressEvent |-> FALSE, type |-> "status"],
     [http |-> FALSE, progressEvent |-> FALSE, type |-> "thrown"]}

NoAuthResult == [access_token |-> "null", state |-> "null", session_state |-> "null"]
NoError == [message |-> "none", authority |-> "none"]

\* JavaScript truthiness of a stored string value.
Truthy(v) == v \notin {Undefined, ""}

\* tokenValidationService.validateStateFromHashCallback(state, localState)
validateStateFromHashCallback(state, localState) == state = localState

\* authWellknownEndpoints?.tokenEndpoint
tokenEndpointOf(c) ==
    IF authWellKnownEndPoints[c].cached
    THEN authWellKnownEndPoints[c].tokenEndpoint
    ELSE Undefined

\* codeFlowCodeRequest's checks without the state comparison.
codeFlowCodeRequestChecksNoState(ctx, c) ==
    IF ~Truthy(tokenEndpointOf(c)) THEN "Token Endpoint not defined" ELSE "none"

\* The two checks codeFlowCodeRequest makes before it posts, in their order:
\* the error it throws, or "none".
codeFlowCodeRequestChecks(ctx, c) ==
    IF ~validateStateFromHashCallback(ctx.state, authStateControl[c])
    THEN "codeFlowCodeRequest incorrect state"
    ELSE IF ~Truthy(tokenEndpointOf(c))
    THEN "Token Endpoint not defined"
    ELSE "none"

\* The switchMap on a response: the response object itself becomes authResult,
\* with state and session_state overwritten from the context.
stampAuthResult(response, ctx) ==
    [response EXCEPT !.state = ctx.state, !.session_state = ctx.sessionState]

\* handleRefreshRetry that rethrows every error.
handleRefreshRetryNever(error, cfg) == -1

\* handleRefreshRetry that retries every HttpErrorResponse.
handleRefreshRetryAnyHttp(error, cfg) ==
    IF error.http THEN cfg.refreshTokenRetryInSeconds * 1000 ELSE -1

\* handleRefreshRetry: the delay in ms after which the POST is retried, or -1
\* when the error is rethrown.
handleRefreshRetry(error, cfg) ==
    IF error.http /\ error.progressEvent /\ error.type = "error"
    THEN cfg.refreshTokenRetryInSeconds * 1000
    ELSE -1

\* catchError: the error codeFlowCodeRequest surfaces for a rethrown failure.
codeRequestError(cfg) ==
    [message |-> "OidcService code request", authority |-> cfg.authority]

InitCode ==
    /\ codeConfig \in [configId : Configs, authority : {"https://idp", "https://idp2"},
                       refreshTokenRetryInSeconds : {1, 3}]
    /\ authStateControl \in [Configs -> StateValues \cup {Undefined}]
    /\ authWellKnownEndPoints \in
          [Configs -> [cached : {TRUE}, tokenEndpoint : {Undefined, "", TokenEndpointUrl}]
                      \cup {[cached |-> FALSE, tokenEndpoint |-> Undefined]}]
    /\ callbackContext \in [code : {"c1"}, state : StateValues,
                            sessionState : {Undefined, "ss1"},
                            authResult : {NoAuthResult} \cup Responses]
    /\ exchange = [pc |-> "init", posts |-> 0, outcomes |-> <<>>, delay |-> 0,
                   error |-> NoError, before |-> callbackContext]

\* codeFlowCodeRequest(callbackContext, config) is called and subscribed.
CodeFlowCodeRequest ==
    LET c == codeConfig.configId
        failure == codeFlowCodeRequestChecks(callbackContext, c)
    IN  /\ exchange.pc = "init"
        /\ exchange' =
              IF failure # "none"
              THEN [exchange EXCEPT !.pc = "failed",
                        !.error = [message |-> failure, authority |-> "none"]]
              ELSE [exchange EXCEPT !.pc = "posting", !.posts = 1]
        /\ UNCHANGED <<codeConfig, authStateControl, authWellKnownEndPoints,
                       callbackContext, refreshVars,
                       callbackVars, implicitVars>>

\* The POST returns a response.
PostResponds(response) ==
    /\ exchange.pc = "posting"
    /\ callbackContext' =
          [callbackContext EXCEPT
              !.authResult = stampAuthResult(response, callbackContext)]
    /\ exchange' = [exchange EXCEPT !.pc = "done",
                       !.outcomes = Append(@, [kind |-> "response", response |-> response,
                                               error |-> CHOOSE e \in PostErrors : TRUE])]
    /\ UNCHANGED <<codeConfig, authStateControl, authWellKnownEndPoints, refreshVars,
                   callbackVars, implicitVars>>

\* The POST fails: retryWhen(handleRefreshRetry) waits and re-subscribes, or
\* rethrows into catchError.
PostFails(error) ==
    LET wait == handleRefreshRetry(error, codeConfig)
        logged == Append(exchange.outcomes,
                         [kind |-> "error", error |-> error,
                          response |-> CHOOSE r \in Responses : TRUE])
    IN  /\ exchange.pc = "posting"
        /\ exchange' =
              IF wait >= 0
              THEN [exchange EXCEPT !.pc = "waiting", !.delay = wait,
                                    !.outcomes = logged]
              ELSE [exchange EXCEPT !.pc = "failed", !.outcomes = logged,
                                    !.error = codeRequestError(codeConfig)]
        /\ UNCHANGED <<codeConfig, authStateControl, authWellKnownEndPoints,
                       callbackContext, refreshVars,
                       callbackVars, implicitVars>>

\* The retry timer fires: the POST is issued again.
RetryTimerFires ==
    /\ exchange.pc = "waiting"
    /\ exchange.posts < MaxPosts
    /\ exchange' = [exchange EXCEPT !.pc = "posting", !.posts = @ + 1]
    /\ UNCHANGED <<codeConfig, authStateControl, authWellKnownEndPoints,
                   callbackContext, refreshVars,
                       callbackVars, implicitVars>>

NextCode ==
    \/ CodeFlowCodeRequest
    \/ \E response \in Responses : PostResponds(response)
    \/ \E error \in PostErrors : PostFails(error)
    \/ RetryTimerFires

\* ---------------------------------------------------- codeFlowCallback

\* The values a parameter of the return URL may have: absent, empty, or one
\* of two values.
UrlValues(name) == {Undefined, "", name \o "1", name \o "2"}

ReturnUrls == [code : UrlValues("c"), state : UrlValues("s"),
               session_state : UrlValues("ss")]

\* urlService.getUrlParameter(urlToCheck, name): the value, or its absence.
getUrlParameter(url, name) ==
    CASE name = "code" -> url.code
      [] name = "state" -> url.state
      [] name = "session_state" -> url.session_state

NoContext ==
    [code |-> "null", refreshToken |-> "null", state |-> "null",
     sessionState |-> "null", authResult |-> "null", isRenewProcess |-> FALSE,
     jwtKeys |-> "null", validationResult |-> "null", existingIdToken |-> "null"]

\* codeFlowCallback with the code tested before the state.
codeFlowCallbackCodeFirst(url) ==
    LET code == getUrlParameter(url, "code")
        state == getUrlParameter(url, "state")
        sessionState == getUrlParameter(url, "session_state")
    IN  IF ~Truthy(code)
        THEN [pc |-> "failed", error |-> "no code in url", context |-> NoContext]
        ELSE IF ~Truthy(state)
        THEN [pc |-> "failed", error |-> "no state in url", context |-> NoContext]
        ELSE [pc |-> "returned", error |-> "none",
              context |-> [NoContext EXCEPT !.code = code, !.state = state,
                                            !.sessionState = sessionState]]

\* codeFlowCallback(urlToCheck, config): the error it throws or the initial
\* callback context it returns.
codeFlowCallback(url) ==
    LET code == getUrlParameter(url, "code")
        state == getUrlParameter(url, "state")
        sessionState == getUrlParameter(url, "session_state")
    IN  IF ~Truthy(state)
        THEN [pc |-> "failed", error |-> "no state in url", context |-> NoContext]
        ELSE IF ~Truthy(code)
        THEN [pc |-> "failed", error |-> "no code in url", context |-> NoContext]
        ELSE [pc |-> "returned", error |-> "none",
              context |-> [NoContext EXCEPT !.code = code, !.state = state,
                                            !.sessionState = sessionState]]

NotCalledBack == [pc |-> "init", error |-> "none", context |-> NoContext]

InitCallback ==
    /\ returnUrl \in ReturnUrls
    /\ callbackResult = NotCalledBack

\* codeFlowCallback(returnUrl, config) is called.
CodeFlowCallback ==
    /\ callbackResult.pc = "init"
    /\ callbackResult' = codeFlowCallback(returnUrl)
    /\ UNCHANGED <<returnUrl, refreshVars, codeVars, implicitVars>>

NextCallback == CodeFlowCallback

\* ------------------------------------- authenticatedImplicitFlowCallback

NotCalledImplicit ==
    [pc |-> "init", isRenewProcess |-> FALSE, result |-> "none",
     contextIsRenewProcess |-> FALSE, wasRunning |-> FALSE, wasChecking |-> FALSE]

\* The tap() with the renewal flag of the context left out of the test.
successNavigationAnyContext(cfg, contextIsRenewProcess) ==
    IF ~cfg.triggerAuthorizationResultEvent THEN <<"postLoginRoute">> ELSE <<>>

\* The tap() on a callback context: the routes it navigates to.
successNavigation(cfg, contextIsRenewProcess) ==
    IF ~cfg.triggerAuthorizationResultEvent /\ ~contextIsRenewProcess
    THEN <<"postLoginRoute">>
    ELSE <<>>

\* The catchError() testing the flag as it is when the error arrives.
failureNavigationCurrentFlag(cfg, isRenewProcess) ==
    IF ~cfg.triggerAuthorizationResultEvent /\ ~isSilentRenewRunning(cfg.configId)
    THEN <<"unauthorizedRoute">>
    ELSE <<>>

\* The catchError(): the routes it navigates to, given the flag value read
\* before processImplicitFlowCallback was called.
failureNavigation(cfg, isRenewProcess) ==
    IF ~cfg.triggerAuthorizationResultEvent /\ ~isRenewProcess
    THEN <<"unauthorizedRoute">>
    ELSE <<>>

\* The catchError() resetting the flag only for a renewal.
failureFlagsOnlyForRenewal(r, cfg, isRenewProcess) ==
    IF isRenewProcess THEN resetSilentRenewRunning(r, cfg.configId) ELSE r

\* The catchError(): the flag map after resetSilentRenewRunning(configId).
failureFlags(r, cfg, isRenewProcess) == resetSilentRenewRunning(r, cfg.configId)

InitImplicit ==
    /\ implicitConfig \in [configId : Configs,
                           triggerAuthorizationResultEvent : BOOLEAN]
    /\ running \in [Configs -> BOOLEAN]
    /\ periodicTokenCheck \in BOOLEAN
    /\ implicit = NotCalledImplicit
    /\ navigations = <<>>
    /\ config = [c \in Configs |->
                    [flow |-> "iframe", authWellknownEndpointUrl |-> "url"]]
    /\ iframePending = [c \in Configs |-> 0]
    /\ calls = [k \in Calls |-> IdleCall]
    /\ authStorage = [c \in Configs |-> [valid |-> FALSE, version |-> 0]]

\* authenticatedImplicitFlowCallback(config, allConfigs, hash) is called: the
\* flag is read and processImplicitFlowCallback is started.
AuthenticatedImplicitFlowCallback ==
    /\ implicit.pc = "init"
    /\ implicit' = [implicit EXCEPT
                       !.pc = "processing",
                       !.isRenewProcess = isSilentRenewRunning(implicitConfig.configId)]
    /\ UNCHANGED <<implicitConfig, periodicTokenCheck, navigations, refreshVars,
                   codeVars, callbackVars>>

\* Another component sets or resets the flag of a configuration while the
\* callback is being processed.
SilentRenewRunningChanges(c) ==
    /\ implicit.pc = "processing"
    /\ running' = [running EXCEPT ![c] = ~@]
    /\ UNCHANGED <<config, iframePending, calls, authStorage, implicitVars, codeVars,
                   callbackVars>>

\* processImplicitFlowCallback emits its callback context.
ImplicitCallbackSucceeds(contextIsRenewProcess) ==
    /\ implicit.pc = "processing"
    /\ implicit' = [implicit EXCEPT
                       !.pc = "done", !.result = "context",
                       !.contextIsRenewProcess = contextIsRenewProcess,
                       !.wasRunning = isSilentRenewRunning(implicitConfig.configId),
                       !.wasChecking = periodicTokenCheck]
    /\ navigations' =
          navigations \o successNavigation(implicitConfig, contextIsRenewProcess)
    /\ UNCHANGED <<implicitConfig, periodicTokenCheck, refreshVars, codeVars,
                   callbackVars>>

\* processImplicitFlowCallback fails.
ImplicitCallbackFails ==
    /\ implicit.pc = "processing"
    /\ running' = failureFlags(running, implicitConfig, implicit.isRenewProcess)
    /\ periodicTokenCheck' = FALSE
    /\ navigations' =
          navigations \o failureNavigation(implicitConfig, implicit.isRenewProcess)
    /\ implicit' = [implicit EXCEPT
                       !.pc = "failed", !.result = "error",
                       !.wasRunning = isSilentRenewRunning(implicitConfig.configId),
                       !.wasChecking = periodicTokenCheck]
    /\ UNCHANGED <<implicitConfig, config, iframePending, calls, authStorage, codeVars,
                   callbackVars>>

NextImplicit ==
    \/ AuthenticatedImplicitFlowCallback
    \/ \E c \in Configs : SilentRenewRunningChanges(c)
    \/ \E r \in BOOLEAN : ImplicitCallbackSucceeds(r)
    \/ ImplicitCallbackFails

\* ------------------------------------------------------- specifications

vars == <<config, running, iframePending, calls, authStorage, codeConfig, authStateControl,
          authWellKnownEndPoints, callbackContext, exchange, returnUrl,
          callbackResult, implicitConfig, implicit, periodicTokenCheck,
          navigations>>

\* The state of the parts a specification does not exercise.
NoExchange ==
    /\ codeConfig = [configId |-> "a", authority |-> "https://idp",
                     refreshTokenRetryInSeconds |-> 1]
    /\ authStateControl = [c \in Configs |-> Undefined]
    /\ authWellKnownEndPoints =
          [c \in Configs |-> [cached |-> FALSE, tokenEndpoint |-> Undefined]]
    /\ callbackContext = [code |-> "c1", state |-> "s1", sessionState |-> Undefined,
                          authResult |-> NoAuthResult]
    /\ exchange = [pc |-> "init", posts |-> 0, outcomes |-> <<>>, delay |-> 0,
                   error |-> NoError, before |-> callbackContext]

NoRefresh ==
    /\ config = [c \in Configs |->
                    [flow |-> "iframe", authWellknownEndpointUrl |-> "url"]]
    /\ running = [c \in Configs |-> FALSE]
    /\ iframePending = [c \in Configs |-> 0]
    /\ calls = [k \in Calls |-> IdleCall]
    /\ authStorage = [c \in Configs |-> [valid |-> FALSE, version |-> 0]]

NoCallback ==
    /\ returnUrl = [code |-> Undefined, state |-> Undefined,
                    session_state |-> Undefined]
    /\ callbackResult = NotCalledBack

NoImplicit ==
    /\ implicitConfig = [configId |-> "a", triggerAuthorizationResultEvent |-> FALSE]
    /\ implicit = NotCalledImplicit
    /\ periodicTokenCheck = FALSE
    /\ navigations = <<>>

Init == InitRefresh /\ NoExchange /\ NoCallback /\ NoImplicit

Next == NextRefresh

Spec == Init /\ [][Next]_vars

InitCodeFlow == InitCode /\ NoRefresh /\ NoCallback /\ NoImplicit

SpecCode == InitCodeFlow /\ [][NextCode]_vars

InitCodeFlowCallback == InitCallback /\ NoRefresh /\ NoExchange /\ NoImplicit

SpecCallback == InitCodeFlowCallback /\ [][NextCallback]_vars

InitImplicitFlow == InitImplicit /\ NoExchange /\ NoCallback

SpecImplicit == InitImplicitFlow /\ [][NextImplicit]_vars

\* ------------------------------------------------------------------ claims

\* Call k has just received a TimeoutError / a non-timeout error.
TimedOut(k) ==
    /\ Len(calls'[k].errs) = Len(calls[k].errs) + 1
    /\ calls'[k].errs[Len(calls'[k].errs)] = TimeoutError

FailedOtherwise(k) ==
    /\ Len(calls'[k].errs) = Len(calls[k].errs) + 1
    /\ calls'[k].errs[Len(calls'[k].errs)] = OtherError

OnIframePath(k) == config[calls[k].cfg].flow = "iframe"

\* C1: a startRefreshSession invocation made while another call's renewal for
\* the same configuration is under way (metadata fetch pending or renewal
\* dispatched) returns the no-op null: it fetches no metadata and dispatches
\* no renewal.
C1_OverlappingCallIsNoOp ==
    \A k \in Calls :
        calls[k].overlapped =>
            /\ calls[k].srs = "null"
            /\ calls[k].fetches = 0
            /\ calls[k].dispatched = 0

\* C2: when an iframe-path forceRefreshSession call that has set the flag
\* surfaces an error, the flag of its configuration is cleared in the state
\* in which the error is surfaced.
C2_FlagClearedWhenErrorSurfaced ==
    [][\A k \in Calls :
          (/\ OnIframePath(k)
           /\ calls[k].everSet
           /\ calls[k].result # "error"
           /\ calls'[k].result = "error") => ~running'[calls[k].cfg]]_vars

\* C3: once no forceRefreshSession call of a configuration is pending (every
\* attempt has definitively ended), the flag of that configuration is not set.
C3_FlagNotLeftSet ==
    \A c \in Configs :
        (\A k \in Calls : calls[k].cfg = c => calls[k].st \in {"idle", "settled"})
            => ~running[c]

\* C4: each of the first MAX_RETRY_ATTEMPTS timeouts of an iframe-path call
\* leads to a retry; a later timeout is surfaced as a failure.
C4_TimeoutsRetriedThreeTimes ==
    [][\A k \in Calls :
          TimedOut(k) =>
             IF Len(calls[k].errs) < MAX_RETRY_ATTEMPTS
             THEN calls'[k].st = "backoff"
             ELSE calls'[k].st = "settled" /\ calls'[k].result = "error"]_vars

\* C5: a timeout among the first MAX_RETRY_ATTEMPTS of a call clears the flag
\* of the call's configuration in the very step that starts the backoff, and
\* the flag is set again only by a resolved metadata fetch.
C5_TimeoutClearsFlag ==
    [][\A k \in Calls :
          /\ (TimedOut(k) /\ Len(calls[k].errs) < MAX_RETRY_ATTEMPTS)
                => ~running'[calls[k].cfg]
          /\ (~running[calls[k].cfg] /\ running'[calls[k].cfg])
                => \E j \in Calls : calls[j].start = "fetching"
                                    /\ calls'[j].start = "renewing"]_vars

\* C6: the backoff after the k-th timeout of a call (k = 1, 2, 3) is
\* k * 1000 ms.
C6_LinearBackoff ==
    [][\A k \in Calls :
          (TimedOut(k) /\ Len(calls[k].errs) < MAX_RETRY_ATTEMPTS)
             => calls'[k].delay = (Len(calls[k].errs) + 1) * 1000]_vars

\* C7: a non-timeout error of an iframe-path call settles the call with a
\* failure in the same step, starts no backoff, and a settled call never
\* changes again (no retry, no further metadata fetch).
C7_NonTimeoutErrorIsTerminal ==
    [][\A k \in Calls :
          /\ (OnIframePath(k) /\ FailedOtherwise(k))
                => /\ calls'[k].st = "settled"
                   /\ calls'[k].result = "error"
                   /\ calls'[k].delay = calls[k].delay
                   /\ calls'[k].fetches = calls[k].fetches
          /\ calls[k].st = "settled" => calls'[k] = calls[k]]_vars

C7_Witness ==
    \E k \in Calls :
        /\ OnIframePath(k)
        /\ calls[k].st = "settled" /\ calls[k].result = "error"
        /\ calls[k].errs # <<>>
        /\ calls[k].errs[Len(calls[k].errs)] = OtherError
        /\ calls[k].dispatched = 1

\* The claims' own reading of the stored values.
StateMatches == callbackContext.state = authStateControl[codeConfig.configId]

TokenEndpointCached ==
    /\ authWellKnownEndPoints[codeConfig.configId].cached
    /\ authWellKnownEndPoints[codeConfig.configId].tokenEndpoint
          \notin {Undefined, ""}

ConnectivityLoss(e) == e.http /\ e.progressEvent /\ e.type = "error"

\* The transport outcome the exchange has just received.
NewOutcome == Len(exchange'.outcomes) = Len(exchange.outcomes) + 1

LastOutcome == exchange'.outcomes[Len(exchange'.outcomes)]

\* C8: a POST is issued only if the stored anti-forgery value equals
\* context.state and a token endpoint is cached; otherwise the call fails
\* with the state error first, the endpoint error second, with no POST and
\* the context unchanged.
C8_PostOnlyAfterBothChecks ==
    /\ exchange.posts > 0 => StateMatches /\ TokenEndpointCached
    /\ (exchange.pc # "init" /\ ~StateMatches) =>
          /\ exchange.pc = "failed"
          /\ exchange.error.message = "codeFlowCodeRequest incorrect state"
          /\ exchange.posts = 0
          /\ callbackContext = exchange.before
    /\ (exchange.pc # "init" /\ StateMatches /\ ~TokenEndpointCached) =>
          /\ exchange.pc = "failed"
          /\ exchange.error.message = "Token Endpoint not defined"
          /\ exchange.posts = 0
          /\ callbackContext = exchange.before

C8_Witness ==
    /\ exchange.pc = "failed"
    /\ ~StateMatches
    /\ ~TokenEndpointCached
    /\ exchange.error.message = "codeFlowCodeRequest incorrect state"

\* C9: a connectivity-loss failure of the POST surfaces nothing and waits the
\* configured refresh-retry delay, after which the only step is another POST;
\* a response resolves the call with authResult = the response carrying the
\* context's state and session_state.
C9_ConnectivityLossRetried ==
    [][/\ (NewOutcome /\ LastOutcome.kind = "error"
                      /\ ConnectivityLoss(LastOutcome.error)) =>
             /\ exchange'.pc = "waiting"
             /\ exchange'.delay = codeConfig.refreshTokenRetryInSeconds * 1000
             /\ exchange'.error = NoError
       /\ (NewOutcome /\ LastOutcome.kind = "response") =>
             /\ exchange'.pc = "done"
             /\ callbackContext'.authResult =
                   [access_token |-> LastOutcome.response.access_token,
                    state |-> callbackContext.state,
                    session_state |-> callbackContext.sessionState]
       /\ (exchange.pc = "waiting" /\ exchange' # exchange) =>
             /\ exchange'.pc = "posting"
             /\ exchange'.posts = exchange.posts + 1]_vars

C9_Witness ==
    /\ exchange.pc = "done"
    /\ exchange.posts = MaxPosts
    /\ exchange.outcomes[Len(exchange.outcomes)].response.state = "s-idp"
    /\ callbackContext.authResult.state = callbackContext.state

\* C10: a POST failure that is not a connectivity loss fails the call in the
\* same step with the code-request error tagged with the authority, the
\* context is as it was before the call, and no POST follows.
C10_OtherFailureSurfaced ==
    [][/\ (NewOutcome /\ LastOutcome.kind = "error"
                      /\ ~ConnectivityLoss(LastOutcome.error)) =>
             /\ exchange'.pc = "failed"
             /\ exchange'.error = [message |-> "OidcService code request",
                                   authority |-> codeConfig.authority]
             /\ callbackContext' = exchange.before
       /\ exchange.pc = "failed" => exchange'.posts = exchange.posts]_vars

C10_Witness ==
    /\ exchange.pc = "failed"
    /\ exchange.posts = 2
    /\ exchange.outcomes[2].error.type = "timeout"
    /\ exchange.before.authResult # NoAuthResult
    /\ exchange.error.authority = codeConfig.authority

\* The return URL carries a (non-empty) value for the parameter.
UrlHas(v) == v \notin {Undefined, ""}

\* C11: codeFlowCallback fails with the missing-state error whenever the URL
\* has no state, whatever its code; with the missing-code error when it has a
\* state and no code; and returns a new context (the three URL values,
\* isRenewProcess false, everything else null) only when it has both; no POST
\* is issued.
C11_StateCheckedBeforeCode ==
    callbackResult.pc # "init" =>
        /\ ~UrlHas(returnUrl.state) =>
              /\ callbackResult.pc = "failed"
              /\ callbackResult.error = "no state in url"
        /\ (UrlHas(returnUrl.state) /\ ~UrlHas(returnUrl.code)) =>
              /\ callbackResult.pc = "failed"
              /\ callbackResult.error = "no code in url"
        /\ callbackResult.pc = "returned" <=>
              (UrlHas(returnUrl.state) /\ UrlHas(returnUrl.code))
        /\ callbackResult.pc = "returned" =>
              callbackResult.context =
                 [NoContext EXCEPT !.code = returnUrl.code,
                                   !.state = returnUrl.state,
                                   !.sessionState = returnUrl.session_state]
        /\ exchange.posts = 0

C11_Witness ==
    /\ callbackResult.pc = "failed"
    /\ returnUrl.state = Undefined
    /\ returnUrl.code = "c1"
    /\ callbackResult.error = "no state in url"

\* The implicit-flow callback has just failed / just succeeded.
ImplicitFailure == implicit.pc = "processing" /\ implicit'.pc = "failed"

ImplicitSuccess == implicit.pc = "processing" /\ implicit'.pc = "done"

\* C12: when the implicit-flow callback fails, the flag of the configuration
\* is cleared and the periodic token check stopped in that very step, in
\* every delivery mode and whatever the flag was, and the call ends with an
\* error.
C12_FailureClearsFlagAndStopsCheck ==
    [][ImplicitFailure =>
          /\ ~running'[implicitConfig.configId]
          /\ \A c \in Configs :
                c # implicitConfig.configId => running'[c] = running[c]
          /\ ~periodicTokenCheck'
          /\ implicit'.result = "error"]_vars

C12_Witness ==
    /\ implicit.pc = "failed"
    /\ implicit.wasRunning
    /\ implicit.wasChecking
    /\ ~implicit.isRenewProcess
    /\ implicitConfig.triggerAuthorizationResultEvent
    /\ implicit.result = "error"

\* C13: a successful implicit-flow callback navigates to postLoginRoute iff
\* the configuration is not in event-delivery mode and the context is not a
\* renewal; it navigates nowhere else and leaves the flag and the periodic
\* check alone.
C13_SuccessNavigation ==
    [][ImplicitSuccess =>
          /\ navigations' =
                IF /\ ~implicitConfig.triggerAuthorizationResultEvent
                   /\ ~implicit'.contextIsRenewProcess
                THEN Append(navigations, "postLoginRoute")
                ELSE navigations
          /\ running' = running
          /\ periodicTokenCheck' = periodicTokenCheck]_vars

C13_Witness ==
    /\ implicit.pc = "done"
    /\ implicit.contextIsRenewProcess
    /\ ~implicit.isRenewProcess
    /\ ~implicitConfig.triggerAuthorizationResultEvent
    /\ navigations = <<>>

\* C14: a failed implicit-flow callback navigates to unauthorizedRoute iff the
\* configuration is not in event-delivery mode and the flag read when the
\* callback was called was false, whatever the flag is when the failure
\* arrives.
C14_FailureNavigation ==
    [][ImplicitFailure =>
          navigations' =
             IF /\ ~implicitConfig.triggerAuthorizationResultEvent
                /\ ~implicit.isRenewProcess
             THEN Append(navigations, "unauthorizedRoute")
             ELSE navigations]_vars

C14_Witness ==
    /\ implicit.pc = "failed"
    /\ implicit.isRenewProcess
    /\ ~implicit.wasRunning
    /\ ~implicitConfig.triggerAuthorizationResultEvent
    /\ navigations = <<>>

OnRefreshPath(k) == isCurrentFlowCodeFlowWithRefreshTokens(calls[k].cfg)

\* The LoginResponse made of the values the storage holds for configuration c.
StoredResponse(st, c) ==
    [idToken |-> TokensOf(c, st[c].version).id_token,
     accessToken |-> TokensOf(c, st[c].version).access_token,
     userData |-> TokensOf(c, st[c].version).userData,
     isAuthenticated |-> TRUE, configId |-> c]

\* C15: a forceRefreshSession call for a refresh-token configuration never
\* waits on the iframe-completion signal, never times out and never backs off
\* for a retry; it settles in the step in which startRefreshSession completes,
\* and what it then returns is the LoginResponse of the values stored after
\* the refresh when those are valid, and null when they are not.
C15_RefreshPathReturnsStoredTokens ==
    [][\A k \in Calls :
          (calls'[k].st # "idle" /\ OnRefreshPath(k)') =>
             /\ calls'[k].sig = "off"
             /\ calls'[k].st # "backoff"
             /\ calls'[k].delay = 0
             /\ \A i \in 1..Len(calls'[k].errs) : calls'[k].errs[i] # TimeoutError
             /\ ~(calls'[k].st = "active" /\ calls'[k].start = "done")
             /\ (calls[k].st # "settled" /\ calls'[k].st = "settled"
                    /\ calls'[k].result # "error") =>
                   calls'[k].response =
                      IF authStorage'[calls'[k].cfg].valid
                      THEN StoredResponse(authStorage', calls'[k].cfg)
                      ELSE NullResponse]_vars

C15_Witness ==
    \E k \in Calls :
        /\ OnRefreshPath(k)
        /\ calls[k].st = "settled"
        /\ calls[k].dispatched = 1
        /\ authStorage[calls[k].cfg].version = 1
        /\ calls[k].response = StoredResponse(authStorage, calls[k].cfg)

\* The switchMap of call k's startRefreshSession runs in this step: its
\* metadata fetch resolves and its renewal is dispatched.
Dispatches(k) ==
    /\ calls[k].st = "active" /\ calls[k].start = "fetching"
    /\ calls'[k].start = "renewing"
    /\ calls'[k].dispatched = calls[k].dispatched + 1

\* C16: the flag of a configuration is raised, and a renewal is dispatched,
\* only in the step in which the metadata fetch of a call for that
\* configuration resolves, and a renewal is dispatched only with the flag set;
\* a call whose metadata fetch fails or is cut off by the timeout raises no
\* flag and dispatches nothing, then or later.
C16_FlagAndDispatchAfterMetadata ==
    [][/\ \A c \in Configs :
            (~running[c] /\ running'[c]) =>
               \E k \in Calls : calls[k].cfg = c /\ Dispatches(k)
       /\ \A k \in Calls :
            /\ (calls'[k].dispatched # calls[k].dispatched /\ calls[k].st # "idle") =>
                  (Dispatches(k) /\ running'[calls[k].cfg])
            /\ ((TimedOut(k) \/ FailedOtherwise(k)) /\ calls[k].start = "fetching") =>
                  /\ calls'[k].dispatched = calls[k].dispatched
                  /\ ~(~running[calls[k].cfg] /\ running'[calls[k].cfg])
                  /\ calls'[k].start = "off"]_vars

C16_Witness ==
    \E k, j \in Calls :
        /\ calls[k].cfg = calls[j].cfg
        /\ calls[j].st = "settled" /\ calls[j].result = "error"
        /\ calls[j].fetches = 1 /\ calls[j].dispatched = 0 /\ ~calls[j].everSet
        /\ calls[k].start = "renewing" /\ calls[k].dispatched = 1
        /\ running[calls[k].cfg]

\* The attempt of call k has been ended by the timeout and no retry attempt
\* has been subscribed since.
CancelledByTimeout(k) ==
    /\ calls[k].st \in {"backoff", "settled"}
    /\ Len(calls[k].errs) > 0
    /\ calls[k].errs[Len(calls[k].errs)] = TimeoutError

\* retryWhen subscribes the next attempt of call k.
RetryAttemptStarts(k) ==
    /\ calls[k].st = "backoff" /\ calls'[k].st = "active"
    /\ calls'[k].dispatched = calls[k].dispatched
    /\ calls'[k].everSet = calls[k].everSet

\* C17: the timeout of an iframe-path attempt unsubscribes its metadata fetch,
\* its renewal and its subscription to the completion signal; from then on
\* the attempt sets no flag, dispatches nothing and produces no result: the
\* call changes only when a retry attempt is subscribed, and the flag of its
\* configuration is raised only by the dispatch of an attempt that is active.
C17_TimedOutAttemptIsCancelled ==
    [][\A k \in Calls :
          /\ (OnIframePath(k) /\ TimedOut(k)) =>
                (calls'[k].start = "off" /\ calls'[k].sig = "off")
          /\ (OnIframePath(k) /\ CancelledByTimeout(k)) =>
                /\ (calls'[k] = calls[k] \/ RetryAttemptStarts(k))
                /\ (~running[calls[k].cfg] /\ running'[calls[k].cfg]) =>
                      \E j \in Calls \ {k} :
                          /\ calls[j].cfg = calls[k].cfg
                          /\ calls[j].st = "active" /\ Dispatches(j)]_vars

\* A call timed out while its renewal was dispatched and its signal pending,
\* and the iframe has answered since.
C17_Witness ==
    \E k \in Calls :
        /\ OnIframePath(k) /\ CancelledByTimeout(k)
        /\ calls[k].dispatched = 1
        /\ iframePending[calls[k].cfg] = 0
        /\ authStorage[calls[k].cfg].version = 1
        /\ calls[k].context = NoTokens

\* The iframe of configuration c answers in this step.
IframeAnswers(c) == iframePending'[c] = iframePending[c] - 1

\* C18: the flag of a configuration changes only in a step of a call or of
\* the iframe of that configuration, and the answer of the iframe of one
\* configuration changes (completes, gives a result to) only calls made for
\* that configuration.
C18_ConfigurationsIndependent ==
    [][/\ \A a \in Configs :
            running'[a] # running[a] =>
               \/ IframeAnswers(a)
               \/ \E k \in Calls : calls[k].cfg = a /\ calls'[k] # calls[k]
       /\ \A c \in Configs :
            IframeAnswers(c) =>
               \A k \in Calls : calls[k].cfg # c => calls'[k] = calls[k]]_vars

\* The number of dispatched renewals of configuration c that have not ended:
\* refresh-token exchanges that have not completed, iframe renewals whose
\* iframe has not answered.
RenewalsInFlight(c) ==
    IF isCurrentFlowCodeFlowWithRefreshTokens(c)
    THEN Cardinality({k \in Calls : calls[k].cfg = c /\ calls[k].start = "renewing"})
    ELSE iframePending[c]

\* C19: for every configuration at most one dispatched renewal is in flight.
C19_AtMostOneRenewalInFlight ==
    \A c \in Configs : RenewalsInFlight(c) <= 1

\* C20: the flag of a configuration is set for the whole time a dispatched
\* renewal of that configuration is in flight.
C20_FlagSetWhileRenewalInFlight ==
    \A c \in Configs : RenewalsInFlight(c) > 0 => running[c]

====
